---- MODULE Spec2Model ----
(***************************************************************************)
(* FaceFlow: the recognition run (recognize.py: main, process_single_image,*)
(* save_annotated_image) and the enrollment run (train.py: main).          *)
(*                                                                         *)
(* Numbers.  A vector is a record [num |-> <<x, y>>, den2 |-> q] standing  *)
(* for the real vector num / sqrt(q); NaNVec stands for a vector of NaNs.  *)
(* Similarities and thresholds are integers in hundredths (0.45 is 45).    *)
(* Box coordinates are whole pixels.  What train.py keeps only for its     *)
(* progress lines, plot and quality report (embedding_vectors, labels,     *)
(* images_for_person, total_images_processed) is left out, as are the log  *)
(* lines; of an annotated image file only the labels drawn are kept.       *)
(***************************************************************************)
EXTENDS Integers, Sequences, FiniteSets, TLC

\* ------------------------------------------------------------------------
\* Bounds and input universes
\* ------------------------------------------------------------------------
MaxImages == 2

None == "None"
NaNVec == [num |-> <<0, 0>>, den2 |-> 0]
\* normed_embedding of a face the recognition model gave no embedding: None
NoEmbedding == [num |-> <<>>, den2 |-> 1]

Vec(x, y) == [num |-> <<x, y>>, den2 |-> 25]

VecZ == Vec(0, 0)
VecA == Vec(5, 0)
VecB == Vec(0, 5)
VecC == Vec(4, 3)
VecE == Vec(-5, 0)

Box1 == <<0, 0, 10, 10>>
Box2 == <<3, 0, 13, 10>>
Box3 == <<2, 0, 12, 10>>
Box4 == <<20, 20, 30, 30>>

Boxes == {Box1, Box2, Box3, Box4}
FaceEmbeddings == {VecZ, VecA, VecC}

Face(b, e) == [bbox |-> b, normed_embedding |-> e]

Faces == {Face(b, e) : b \in Boxes, e \in FaceEmbeddings}

\* what app.get does on one preprocessing variant: raise, or a list of faces
Raise == [raised |-> TRUE, faces |-> <<>>]
Found(q) == [raised |-> FALSE, faces |-> q]

DetectorOutputs ==
    {Raise, Found(<<>>), Found(<<Face(Box3, VecA), Face(Box1, VecC)>>)}
        \cup {Found(<<f>>) : f \in Faces}
BatchDetectorOutputs ==
    {Raise, Found(<<>>), Found(<<Face(Box1, VecA)>>),
     Found(<<Face(Box1, VecA), Face(Box2, NoEmbedding), Face(Box4, VecC)>>)}

Entry(n, e) == [name |-> n, emb |-> e]

\* a gallery is the dict in iteration order: a sequence of entries
Galleries ==
    { <<>>,
      <<Entry("alice", VecA)>>,
      <<Entry("alice", VecB)>>,
      <<Entry("alice", VecA), Entry("bob", VecB)>>,
      <<Entry("bob", VecB), Entry("alice", VecA)>>,
      <<Entry("alice", VecA), Entry("bob", VecA)>>,
      <<Entry("alice", VecB), Entry("bob", VecB)>>,
      <<Entry("unknown", VecA)>> }

\* the gallery files of the modelled recognition runs
BatchGalleries ==
    { <<>>,
      <<Entry("alice", VecA)>>,
      <<Entry("alice", VecA), Entry("bob", VecB)>> }

Thresholds == {-50, 45, 60}

\* enrollment: bound on the photos of one student folder, the embeddings the
\* detector may return for a photo, and the folders of the dataset
MaxPhotos == 1
TrainEmbeddings == {VecA, VecE, VecC}
FolderNames == <<"Alice", "bob">>

\* a path of the file system: absent, or present with its content
MissingFile == [exists |-> FALSE, content |-> <<>>]
MissingFolder == [exists |-> FALSE, content |-> {}]
Present(c) == [exists |-> TRUE, content |-> c]

Exts == {".JPG", ".txt"}

\* ------------------------------------------------------------------------
\* Pure helpers
\* ------------------------------------------------------------------------
Max(a, b) == IF a >= b THEN a ELSE b
Min(a, b) == IF a <= b THEN a ELSE b

Dot(a, b) == a[1] * b[1] + a[2] * b[2]
NormSq(a) == Dot(a, a)

\* integer square root (floor)
Sqrt(n) == CHOOSE k \in 0..n : k * k <= n /\ (k + 1) * (k + 1) > n

IsNaNVec(v) == v.den2 = 0

\* np.linalg.norm(None) raises TypeError
HasEmbedding(v) == v.num # <<>>

\* the norm test left out: every embedding passes
NormPositiveAlways(v) == TRUE

\* np.linalg.norm(v) > 0
NormPositive(v) == ~IsNaNVec(v) /\ NormSq(v.num) > 0

\* v / np.linalg.norm(v)
Normalize(v) ==
    IF IsNaNVec(v) \/ NormSq(v.num) = 0 THEN NaNVec
    ELSE [num |-> v.num, den2 |-> NormSq(v.num)]

\* the vector has Euclidean norm 1
IsUnitNorm(v) == ~IsNaNVec(v) /\ NormSq(v.num) = v.den2

\* np.dot(a, b) / (np.linalg.norm(a) * np.linalg.norm(b)), in hundredths
cosine_similarity(a, b) ==
    IF IsNaNVec(a) \/ IsNaNVec(b) \/ NormSq(a.num) = 0 \/ NormSq(b.num) = 0
    THEN [nan |-> TRUE, val |-> 0]
    ELSE [nan |-> FALSE,
          val |-> (100 * Dot(a.num, b.num))
                      \div Sqrt(NormSq(a.num) * NormSq(b.num))]

\* similarity > y, which is false when the similarity is NaN
Greater(sim, y) == ~sim.nan /\ sim.val > y

Lower(s) ==
    CASE s = ".JPG" -> ".jpg"
      [] s = "Alice" -> "alice"
      [] s = "Bob" -> "bob"
      [] s = "Unknown" -> "unknown"
      [] OTHER -> s

\* str.title() on the gallery keys
Title(s) ==
    CASE s = "alice" -> "Alice"
      [] s = "bob" -> "Bob"
      [] s = "unknown" -> "Unknown"
      [] OTHER -> s

ImageExts == {".jpg", ".jpeg", ".png", ".bmp"}

\* f.lower().endswith(('.jpg', '.jpeg', '.png', '.bmp'))
IsImageFile(f) == Lower(f.ext) \in ImageExts

\* sorted(image_files): names "<stem><ext>" with distinct stems
RECURSIVE SortedFiles(_)
SortedFiles(S) ==
    IF S = {} THEN <<>>
    ELSE LET f == CHOOSE g \in S : \A h \in S : g.stem <= h.stem
         IN <<f>> \o SortedFiles(S \ {f})

\* the directory listings of the test folder
Listings ==
    {L \in SUBSET {[stem |-> i, ext |-> e] : i \in 1..MaxImages, e \in Exts} :
        \A f, g \in L : f.stem = g.stem => f = g}

\* ------------------------------------------------------------------------
\* process_single_image: duplicate suppression
\* ------------------------------------------------------------------------
Area(b) == (b[3] - b[1]) * (b[4] - b[2])

intersection_area(bbox, unique_bbox) ==
    Max(0, Min(bbox[3], unique_bbox[3]) - Max(bbox[1], unique_bbox[1]))
        * Max(0, Min(bbox[4], unique_bbox[4]) - Max(bbox[2], unique_bbox[2]))

\* intersection_area / min(face_area, unique_area) > 0.7
OverlapExceeds(bbox, unique_bbox) ==
    10 * intersection_area(bbox, unique_bbox)
        > 7 * Min(Area(bbox), Area(unique_bbox))

\* the comparison made with the last kept face only
is_duplicate_of_last(face, uniq) ==
    uniq # <<>> /\ OverlapExceeds(face.bbox, uniq[Len(uniq)].bbox)

\* the inner loop over unique_faces, with its break
is_duplicate(face, uniq) ==
    \E k \in 1..Len(uniq) : OverlapExceeds(face.bbox, uniq[k].bbox)

\* ------------------------------------------------------------------------
\* process_single_image: matching of one face
\* ------------------------------------------------------------------------
Truthy(name) == name # "" /\ name # None

\* the loop without the test of recognized_in_image
RECURSIVE FindBestMatchReuse(_, _, _, _, _, _)
FindBestMatchReuse(embedding, gallery, k, threshold, used, best) ==
    IF k > Len(gallery) THEN best
    ELSE LET name == gallery[k].name
             similarity == cosine_similarity(embedding, gallery[k].emb)
         IN IF /\ Greater(similarity, best.best_similarity)
               /\ Greater(similarity, threshold)
            THEN FindBestMatchReuse(embedding, gallery, k + 1, threshold, used,
                     [best_match |-> name, best_similarity |-> similarity.val])
            ELSE FindBestMatchReuse(embedding, gallery, k + 1, threshold, used,
                     best)

\* the loop with similarity >= confidence_threshold (hundredths)
RECURSIVE FindBestMatchAtLeast(_, _, _, _, _, _)
FindBestMatchAtLeast(embedding, gallery, k, threshold, used, best) ==
    IF k > Len(gallery) THEN best
    ELSE LET name == gallery[k].name
             similarity == cosine_similarity(embedding, gallery[k].emb)
         IN IF /\ Greater(similarity, best.best_similarity)
               /\ Greater(similarity, threshold - 1)
               /\ name \notin used
            THEN FindBestMatchAtLeast(embedding, gallery, k + 1, threshold,
                     used,
                     [best_match |-> name, best_similarity |-> similarity.val])
            ELSE FindBestMatchAtLeast(embedding, gallery, k + 1, threshold,
                     used, best)

\* the loop over known_faces.items(), from entry k on
RECURSIVE FindBestMatch(_, _, _, _, _, _)
FindBestMatch(embedding, gallery, k, threshold, used, best) ==
    IF k > Len(gallery) THEN best
    ELSE LET name == gallery[k].name
             similarity == cosine_similarity(embedding, gallery[k].emb)
         IN IF /\ Greater(similarity, best.best_similarity)
               /\ Greater(similarity, threshold)
               /\ name \notin used
            THEN FindBestMatch(embedding, gallery, k + 1, threshold, used,
                     [best_match |-> name, best_similarity |-> similarity.val])
            ELSE FindBestMatch(embedding, gallery, k + 1, threshold, used, best)

NoMatch == [best_match |-> None, best_similarity |-> 0]

\* ------------------------------------------------------------------------
\* save_annotated_image
\* ------------------------------------------------------------------------
\* no file written, and a file showing the given labels
NotSaved == [saved |-> FALSE, labels |-> <<>>]
Saved(labels) == [saved |-> TRUE, labels |-> labels]

Unknown == [best_match |-> "Unknown", best_similarity |-> 0]

\* the loop over known_faces.items() of lines 207-217, from entry k on
RECURSIVE FindBestLabel(_, _, _, _, _, _)
FindBestLabel(embedding, gallery, k, threshold, recognized_names, best) ==
    IF k > Len(gallery) THEN best
    ELSE LET name == gallery[k].name
             similarity == cosine_similarity(embedding, gallery[k].emb)
         IN IF /\ Greater(similarity, best.best_similarity)
               /\ Greater(similarity, threshold)
               /\ name \notin recognized_names
            THEN FindBestLabel(embedding, gallery, k + 1, threshold,
                     recognized_names,
                     [best_match |-> Title(name),
                      best_similarity |-> similarity.val])
            ELSE FindBestLabel(embedding, gallery, k + 1, threshold,
                     recognized_names, best)

Label(face_idx, best) ==
    [faceIndex |-> face_idx, label |-> best.best_match,
     confidence |-> best.best_similarity]

\* the loop over faces from position k on, then pil_image.save; a face
\* without embedding raises in line 199 and the handler of line 267 ends
\* the function with no file written
RECURSIVE save_annotated_image(_, _, _, _, _, _)
save_annotated_image(faces, k, gallery, threshold, recognized_names, labels) ==
    IF k > Len(faces) THEN Saved(labels)
    ELSE LET face == faces[k]
         IN IF ~HasEmbedding(face.normed_embedding) THEN NotSaved
            ELSE IF ~NormPositive(face.normed_embedding)
            THEN save_annotated_image(faces, k + 1, gallery, threshold,
                     recognized_names, labels)
            ELSE LET best == FindBestLabel(Normalize(face.normed_embedding),
                                 gallery, 1, threshold, recognized_names,
                                 Unknown)
                 IN save_annotated_image(faces, k + 1, gallery, threshold,
                        IF best.best_match # "Unknown"
                        THEN recognized_names \cup {Lower(best.best_match)}
                        ELSE recognized_names,
                        Append(labels, Label(k - 1, best)))

Detection(image_index, face_idx, face, best) ==
    [imageIndex |-> image_index,
     faceIndex  |-> face_idx,
     bbox       |-> face.bbox,
     confidence |-> best.best_similarity,
     studentId  |-> IF Truthy(best.best_match) THEN best.best_match ELSE None]

\* ------------------------------------------------------------------------
\* State
\* ------------------------------------------------------------------------
VARIABLES
    pc,                  \* position in main / process_single_image
    ret,                 \* who called process_single_image: "main" or "top"
    embeddings_file,     \* file system: Missing or the pickled gallery
    test_folder,         \* file system: Missing or the directory listing
    known_faces,         \* main: the loaded gallery
    image_files,         \* main: sorted(image_files)
    idx,                 \* main: loop index over the sorted files
    all_detections,      \* main
    total_faces,         \* main
    recognized_students, \* main
    confidence_scores,   \* main
    stdout,              \* the JSON objects printed so far
    exit_status,         \* <<>> while running, then <<0>> or <<1>>
    image_index,         \* process_single_image parameter
    confidence_threshold,\* process_single_image parameter
    method,              \* process_single_image: index into processing_methods
    method_outputs,      \* what app.get did on the variants tried so far
    all_faces,           \* process_single_image
    unique_faces,        \* process_single_image
    face_pos,            \* process_single_image: position of the loop at hand
    recognized_in_image, \* process_single_image
    detections,          \* process_single_image
    annotated_image,     \* save_annotated_image: the file and what it shows
    seen_faces,          \* per collected image, the detections pooled for it
    failed_images,       \* indexes of the images whose call left before line 67
    dataset,             \* train: Missing or the set of student folders
    student_folders,     \* train: sorted(student_folders)
    folder_pos,          \* train: position in student_folders
    n_image_files,       \* train: len(image_files) of the folder at hand
    photo_pos,           \* train: position in image_files
    aug_idx,             \* train: index of the next augmentation
    person_embeddings,   \* train
    median_embedding,    \* train: the median before it is normalized
    face_dict,           \* train: the gallery being built, in insertion order
    total_students       \* train

mainVars == <<embeddings_file, test_folder, known_faces, image_files, idx,
              all_detections, total_faces, recognized_students,
              confidence_scores, stdout, exit_status, seen_faces,
              failed_images>>
callVars == <<image_index, confidence_threshold>>
psiVars == <<method, method_outputs, all_faces, unique_faces, face_pos,
             recognized_in_image, detections, annotated_image>>
recVars == <<ret, mainVars, callVars, psiVars>>
trainVars == <<dataset, student_folders, folder_pos, n_image_files, photo_pos,
               aug_idx, person_embeddings, median_embedding, face_dict,
               total_students>>
vars == <<pc, recVars, trainVars>>

DefaultThreshold == 45

processing_methods == <<"original", "enhanced", "histogram_equalized">>

ErrorResult(msg) ==
    [error |-> msg, totalFaces |-> 0, recognizedStudents |-> {},
     averageConfidence |-> 0, detections |-> <<>>]

RECURSIVE SumSeq(_)
SumSeq(q) == IF q = <<>> THEN 0 ELSE Head(q) + SumSeq(Tail(q))

PsiIdle ==
    /\ method = 1
    /\ method_outputs = <<>>
    /\ all_faces = <<>>
    /\ unique_faces = <<>>
    /\ face_pos = 1
    /\ recognized_in_image = {}
    /\ detections = <<>>
    /\ annotated_image = NotSaved

MainIdle ==
    /\ image_files = <<>>
    /\ idx = 0
    /\ all_detections = <<>>
    /\ total_faces = 0
    /\ recognized_students = {}
    /\ confidence_scores = <<>>
    /\ stdout = <<>>
    /\ exit_status = <<>>
    /\ seen_faces = <<>>
    /\ failed_images = {}

TrainIdle ==
    /\ student_folders = <<>>
    /\ folder_pos = 1
    /\ n_image_files = 0
    /\ photo_pos = 1
    /\ aug_idx = 0
    /\ person_embeddings = <<>>
    /\ median_embedding = NaNVec
    /\ face_dict = <<>>
    /\ total_students = 0

\* a recognition run: the file system is any of the modelled ones
Init ==
    /\ pc = "main_start"
    /\ ret = "main"
    /\ embeddings_file \in
           {MissingFile} \cup {Present(g) : g \in BatchGalleries}
    /\ test_folder \in {MissingFolder} \cup {Present(l) : l \in Listings}
    /\ known_faces = <<>>
    /\ MainIdle
    /\ image_index = 0
    /\ confidence_threshold = DefaultThreshold
    /\ PsiIdle
    /\ dataset = MissingFolder
    /\ TrainIdle

\* one call of process_single_image with any gallery and threshold
InitImage ==
    /\ pc = "psi_imread"
    /\ ret = "top"
    /\ embeddings_file = MissingFile
    /\ test_folder = MissingFolder
    /\ known_faces \in Galleries
    /\ MainIdle
    /\ image_index = 0
    /\ confidence_threshold \in Thresholds
    /\ PsiIdle
    /\ dataset = MissingFolder
    /\ TrainIdle

\* an enrollment run over any of the modelled datasets
InitTrain ==
    /\ pc = "train_start"
    /\ ret = "top"
    /\ embeddings_file = MissingFile
    /\ test_folder = MissingFolder
    /\ known_faces = <<>>
    /\ MainIdle
    /\ image_index = 0
    /\ confidence_threshold = DefaultThreshold
    /\ PsiIdle
    /\ dataset \in {MissingFolder} \cup
           {Present(S) : S \in SUBSET {FolderNames[k] : k \in 1..Len(FolderNames)}}
    /\ TrainIdle

\* ------------------------------------------------------------------------
\* process_single_image
\* ------------------------------------------------------------------------
\* the locals of a call before line 115; recognized_in_image is not bound
\* until then, and the model leaves in it whatever it held
ResetPsi ==
    /\ method' = 1
    /\ method_outputs' = <<>>
    /\ all_faces' = <<>>
    /\ unique_faces' = <<>>
    /\ face_pos' = 1
    /\ detections' = <<>>
    /\ annotated_image' = NotSaved
    /\ UNCHANGED recognized_in_image

\* the call with an invalid image ending the run like a fatal error
PsiImreadAbort ==
    /\ pc = "psi_imread"
    /\ \E valid \in BOOLEAN :
          IF valid
          THEN /\ pc' = "psi_detect"
               /\ UNCHANGED <<stdout, exit_status>>
          ELSE /\ pc' = "exited"
               /\ stdout' = Append(stdout, ErrorResult("exception"))
               /\ exit_status' = <<1>>
    /\ UNCHANGED <<ret, embeddings_file, test_folder, known_faces, image_files,
                   idx, all_detections, total_faces, recognized_students,
                   confidence_scores, seen_faces, failed_images, callVars,
                   psiVars, trainVars>>

\* cv2.imread and the validity test; an invalid image returns no detections
PsiImread ==
    /\ pc = "psi_imread"
    /\ \E valid \in BOOLEAN :
          pc' = IF valid THEN "psi_detect" ELSE "psi_return"
    /\ UNCHANGED <<ret, mainVars, callVars, psiVars, trainVars>>

\* an exception while the variants are built (cv2.cvtColor, Image.fromarray,
\* cv2.equalizeHist): the handler of line 170 logs it and line 173 returns
\* the detections, none so far
PsiRaise ==
    /\ pc = "psi_detect"
    /\ method = 1
    /\ pc' = "psi_return"
    /\ UNCHANGED <<ret, mainVars, callVars, psiVars, trainVars>>

\* the iteration with a raise of app.get ending the loop over the variants
PsiDetectRaiseEndsLoop(U) ==
    /\ pc = "psi_detect"
    /\ method <= Len(processing_methods)
    /\ \E out \in U :
          /\ all_faces' = IF out.raised THEN all_faces
                          ELSE all_faces \o out.faces
          /\ method_outputs' = Append(method_outputs, out)
          /\ method' = IF out.raised THEN Len(processing_methods) + 1
                       ELSE method + 1
          /\ pc' = IF out.raised \/ method = Len(processing_methods)
                   THEN "psi_dedupe" ELSE "psi_detect"
    /\ UNCHANGED <<ret, mainVars, callVars, unique_faces, face_pos,
                   recognized_in_image, detections, annotated_image,
                   trainVars>>

\* one iteration of the loop over processing_methods; app.get answers
\* with any of the outputs U, and a raise skips the method
PsiDetect(U) ==
    /\ pc = "psi_detect"
    /\ method <= Len(processing_methods)
    /\ \E out \in U :
          /\ all_faces' = IF out.raised THEN all_faces
                          ELSE all_faces \o out.faces
          /\ method_outputs' = Append(method_outputs, out)
    /\ method' = method + 1
    /\ pc' = IF method = Len(processing_methods) THEN "psi_dedupe"
             ELSE "psi_detect"
    /\ UNCHANGED <<ret, mainVars, callVars, unique_faces, face_pos,
                   recognized_in_image, detections, annotated_image,
                   trainVars>>

\* the iteration with last-seen wins: a duplicate takes the place of the
\* first kept face it overlaps
PsiDedupeLastWins ==
    /\ pc = "psi_dedupe"
    /\ face_pos <= Len(all_faces)
    /\ LET face == all_faces[face_pos]
           hits == {k \in 1..Len(unique_faces) :
                       OverlapExceeds(face.bbox, unique_faces[k].bbox)}
       IN unique_faces' =
              IF hits = {} THEN Append(unique_faces, face)
              ELSE [unique_faces EXCEPT
                        ![CHOOSE k \in hits : \A j \in hits : k <= j] = face]
    /\ face_pos' = face_pos + 1
    /\ UNCHANGED <<pc, ret, mainVars, callVars, method, method_outputs,
                   all_faces,
                   recognized_in_image, detections, annotated_image,
                   trainVars>>

\* one iteration of the loop over all_faces
PsiDedupe ==
    /\ pc = "psi_dedupe"
    /\ face_pos <= Len(all_faces)
    /\ LET face == all_faces[face_pos]
       IN unique_faces' = IF is_duplicate(face, unique_faces)
                          THEN unique_faces
                          ELSE Append(unique_faces, face)
    /\ face_pos' = face_pos + 1
    /\ UNCHANGED <<pc, ret, mainVars, callVars, method, method_outputs,
                   all_faces,
                   recognized_in_image, detections, annotated_image,
                   trainVars>>

\* the step with recognized_in_image kept from the image before
PsiStartMatchingKeepSet ==
    /\ pc = "psi_dedupe"
    /\ face_pos > Len(all_faces)
    /\ pc' = "psi_match"
    /\ face_pos' = 1
    /\ UNCHANGED <<ret, mainVars, callVars, method, method_outputs,
                   all_faces, unique_faces,
                   recognized_in_image, detections, annotated_image,
                   trainVars>>

\* the loop over all_faces is over; recognized_in_image = set()
PsiStartMatching ==
    /\ pc = "psi_dedupe"
    /\ face_pos > Len(all_faces)
    /\ pc' = "psi_match"
    /\ face_pos' = 1
    /\ recognized_in_image' = {}
    /\ UNCHANGED <<ret, mainVars, callVars, method, method_outputs,
                   all_faces, unique_faces,
                   detections, annotated_image, trainVars>>

\* one iteration of the loop over unique_faces; face_idx is face_pos - 1.
\* A face without embedding raises in line 124, and the handler of line 162
\* goes on with the next face
PsiMatchFace ==
    /\ pc = "psi_match"
    /\ face_pos <= Len(unique_faces)
    /\ LET face == unique_faces[face_pos]
           face_idx == face_pos - 1
       IN IF HasEmbedding(face.normed_embedding)
             /\ NormPositive(face.normed_embedding)
          THEN LET embedding == Normalize(face.normed_embedding)
                   best == FindBestMatch(embedding, known_faces, 1,
                               confidence_threshold, recognized_in_image,
                               NoMatch)
               IN /\ detections' = Append(detections,
                         Detection(image_index, face_idx, face, best))
                  /\ recognized_in_image' =
                         IF Truthy(best.best_match)
                         THEN recognized_in_image \cup {best.best_match}
                         ELSE recognized_in_image
          ELSE UNCHANGED <<detections, recognized_in_image>>
    /\ face_pos' = face_pos + 1
    /\ UNCHANGED <<pc, ret, mainVars, callVars, method, method_outputs,
                   all_faces,
                   unique_faces, annotated_image, trainVars>>

\* save_annotated_image is called and the detections are returned
PsiAnnotate ==
    /\ pc = "psi_match"
    /\ face_pos > Len(unique_faces)
    /\ annotated_image' = save_annotated_image(unique_faces, 1, known_faces,
                              confidence_threshold, {}, <<>>)
    /\ pc' = "psi_return"
    /\ UNCHANGED <<ret, mainVars, callVars, method, method_outputs,
                   all_faces, unique_faces, face_pos, recognized_in_image,
                   detections, trainVars>>

PsiNext(U) ==
    \/ PsiImread
    \/ PsiRaise
    \/ PsiDetect(U)
    \/ PsiDedupe
    \/ PsiStartMatching
    \/ PsiMatchFace
    \/ PsiAnnotate

NextImage == PsiNext(DetectorOutputs)

SpecImage == InitImage /\ [][NextImage]_vars

\* ------------------------------------------------------------------------
\* main of the recognition run
\* ------------------------------------------------------------------------
\* print(json.dumps(result)); sys.exit(1)
Fail(msg) ==
    /\ stdout' = Append(stdout, ErrorResult(msg))
    /\ exit_status' = <<1>>
    /\ pc' = "exited"

\* os.path.exists(EMBEDDINGS_FILE)
MainCheckEmbeddings ==
    /\ pc = "main_start"
    /\ IF ~embeddings_file.exists
       THEN Fail("No trained model found")
       ELSE /\ pc' = "main_load"
            /\ UNCHANGED <<stdout, exit_status>>
    /\ UNCHANGED <<ret, embeddings_file, test_folder, known_faces, image_files,
                   idx, all_detections, total_faces, recognized_students,
                   confidence_scores, seen_faces, failed_images, callVars,
                   psiVars,
                   trainVars>>

\* pickle.load and the test for an empty gallery
MainLoadGallery ==
    /\ pc = "main_load"
    /\ known_faces' = embeddings_file.content
    /\ IF known_faces' = <<>>
       THEN Fail("No trained faces found")
       ELSE /\ pc' = "main_init_app"
            /\ UNCHANGED <<stdout, exit_status>>
    /\ UNCHANGED <<ret, embeddings_file, test_folder, image_files,
                   idx, all_detections, total_faces, recognized_students,
                   confidence_scores, seen_faces, failed_images, callVars,
                   psiVars,
                   trainVars>>

\* FaceAnalysis(...) and app.prepare(...); a raise is caught by the
\* except clause of main, which prints the error object and exits with 1
MainInitApp ==
    /\ pc = "main_init_app"
    /\ \E ok \in BOOLEAN :
          IF ok
          THEN /\ pc' = "main_check_folder"
               /\ UNCHANGED <<stdout, exit_status>>
          ELSE Fail("exception")
    /\ UNCHANGED <<ret, embeddings_file, test_folder, known_faces, image_files,
                   idx, all_detections, total_faces, recognized_students,
                   confidence_scores, seen_faces, failed_images, callVars,
                   psiVars,
                   trainVars>>

\* os.path.exists(TEST_FOLDER)
MainCheckFolder ==
    /\ pc = "main_check_folder"
    /\ IF ~test_folder.exists
       THEN Fail("Test images folder not found")
       ELSE /\ pc' = "main_list"
            /\ UNCHANGED <<stdout, exit_status>>
    /\ UNCHANGED <<ret, embeddings_file, test_folder, known_faces, image_files,
                   idx, all_detections, total_faces, recognized_students,
                   confidence_scores, seen_faces, failed_images, callVars,
                   psiVars,
                   trainVars>>

\* the step without the test for an empty list of image files
MainListImagesNoCheck ==
    /\ pc = "main_list"
    /\ image_files' =
           SortedFiles({f \in test_folder.content : IsImageFile(f)})
    /\ pc' = "main_loop"
    /\ UNCHANGED <<ret, embeddings_file, test_folder, known_faces,
                   idx, all_detections, total_faces, recognized_students,
                   confidence_scores, stdout, exit_status, seen_faces,
                   failed_images, callVars, psiVars, trainVars>>

\* the listing is filtered by extension; the loop later runs over it sorted
MainListImages ==
    /\ pc = "main_list"
    /\ image_files' =
           SortedFiles({f \in test_folder.content : IsImageFile(f)})
    /\ IF image_files' = <<>>
       THEN Fail("No images found in test folder")
       ELSE /\ pc' = "main_loop"
            /\ UNCHANGED <<stdout, exit_status>>
    /\ UNCHANGED <<ret, embeddings_file, test_folder, known_faces,
                   idx, all_detections, total_faces, recognized_students,
                   confidence_scores, seen_faces, failed_images, callVars,
                   psiVars,
                   trainVars>>

\* loop head: process_single_image(image_path, known_faces, app, idx)
MainCallImage ==
    /\ pc = "main_loop"
    /\ idx < Len(image_files)
    /\ pc' = "psi_imread"
    /\ image_index' = idx
    /\ confidence_threshold' = DefaultThreshold
    /\ ResetPsi
    /\ UNCHANGED <<ret, mainVars, trainVars>>

RECURSIVE MatchedConfidences(_)
MatchedConfidences(dets) ==
    IF dets = <<>> THEN <<>>
    ELSE (IF Truthy(Head(dets).studentId) THEN <<Head(dets).confidence>>
          ELSE <<>>) \o MatchedConfidences(Tail(dets))

\* the body of the loop after the call returned
MainCollect ==
    /\ pc = "psi_return"
    /\ ret = "main"
    /\ all_detections' = all_detections \o detections
    /\ total_faces' = total_faces + Len(detections)
    /\ recognized_students' = recognized_students \cup
           {detections[k].studentId : k \in
               {j \in 1..Len(detections) : Truthy(detections[j].studentId)}}
    /\ confidence_scores' = confidence_scores \o MatchedConfidences(detections)
    /\ seen_faces' = Append(seen_faces, all_faces)
    /\ failed_images' = IF method = 1 THEN failed_images \cup {idx}
                        ELSE failed_images
    /\ idx' = idx + 1
    /\ pc' = "main_loop"
    /\ ResetPsi
    /\ UNCHANGED <<ret, embeddings_file, test_folder, known_faces, image_files,
                   stdout, exit_status, callVars, trainVars>>

\* the results are computed and printed
MainReport ==
    /\ pc = "main_loop"
    /\ idx >= Len(image_files)
    /\ LET n == Len(confidence_scores)
           avg_confidence ==
               IF n > 0 THEN SumSeq(confidence_scores) \div n ELSE 0
           recognition_rate ==
               IF total_faces > 0 THEN (100 * n) \div total_faces ELSE 0
       IN stdout' = Append(stdout,
              [totalFaces |-> total_faces,
               recognizedStudents |-> recognized_students,
               averageConfidence |-> avg_confidence,
               recognitionRate |-> recognition_rate,
               detections |-> all_detections,
               processedImages |-> Len(image_files)])
    /\ exit_status' = <<0>>
    /\ pc' = "done"
    /\ UNCHANGED <<ret, embeddings_file, test_folder, known_faces, image_files,
                   idx, all_detections, total_faces, recognized_students,
                   confidence_scores, seen_faces, failed_images, callVars,
                   psiVars,
                   trainVars>>

Next ==
    \/ MainCheckEmbeddings
    \/ MainLoadGallery
    \/ MainInitApp
    \/ MainCheckFolder
    \/ MainListImages
    \/ MainCallImage
    \/ PsiNext(BatchDetectorOutputs)
    \/ MainCollect
    \/ MainReport

Spec == Init /\ [][Next]_vars

\* ------------------------------------------------------------------------
\* main of the enrollment run
\* ------------------------------------------------------------------------
\* sorted(student_folders); FolderNames lists the names in sorted order
SortedFolders(S) == SelectSeq(FolderNames, LAMBDA n : n \in S)

\* min(3, max(1, 5 - len(image_files)))
num_augmentations(n_files) == Min(3, Max(1, 5 - n_files))

RECURSIVE Insert(_, _)
Insert(x, q) ==
    IF q = <<>> THEN <<x>>
    ELSE IF x <= Head(q) THEN <<x>> \o q
    ELSE <<Head(q)>> \o Insert(x, Tail(q))

RECURSIVE Sort(_)
Sort(q) == IF q = <<>> THEN <<>> ELSE Insert(Head(q), Sort(Tail(q)))

\* the middle taken by position, the list not sorted
Median2Unsorted(q) ==
    LET n == Len(q)
    IN IF n % 2 = 1 THEN 2 * q[(n + 1) \div 2]
       ELSE q[n \div 2] + q[n \div 2 + 1]

\* twice np.median of a non-empty list of numbers
Median2(q) ==
    LET sorted == Sort(q)
        n == Len(q)
    IN IF n % 2 = 1 THEN 2 * sorted[(n + 1) \div 2]
       ELSE sorted[n \div 2] + sorted[n \div 2 + 1]

\* np.median(person_embeddings, axis=0); the numerators are doubled, so
\* the squared denominator is multiplied by 4
ElementwiseMedian(embs) ==
    [num |-> <<Median2([k \in 1..Len(embs) |-> embs[k].num[1]]),
               Median2([k \in 1..Len(embs) |-> embs[k].num[2]])>>,
     den2 |-> 4 * embs[1].den2]

HasKey(dict, key) == \E k \in 1..Len(dict) : dict[k].name = key

\* dict[key] = value keeps the position of a key already there
DictSet(dict, key, value) ==
    IF HasKey(dict, key)
    THEN [k \in 1..Len(dict) |->
              IF dict[k].name = key THEN Entry(key, value) ELSE dict[k]]
    ELSE Append(dict, Entry(key, value))

DictGet(dict, key) ==
    dict[CHOOSE k \in 1..Len(dict) : dict[k].name = key].emb

TrainExit(status) ==
    /\ exit_status' = <<status>>
    /\ pc' = "exited"

\* the dataset folder is looked up and listed
TrainStart ==
    /\ pc = "train_start"
    /\ IF ~dataset.exists \/ dataset.content = {}
       THEN /\ TrainExit(1)
            /\ UNCHANGED student_folders
       ELSE /\ student_folders' = SortedFolders(dataset.content)
            /\ pc' = "train_folder"
            /\ UNCHANGED exit_status
    /\ UNCHANGED <<ret, embeddings_file, test_folder, known_faces, image_files,
                   idx, all_detections, total_faces, recognized_students,
                   confidence_scores, stdout, seen_faces, failed_images,
                   callVars,
                   psiVars,
                   dataset, folder_pos, n_image_files, photo_pos, aug_idx,
                   person_embeddings, median_embedding, face_dict,
                   total_students>>

\* head of the loop over the student folders; a folder without image files
\* is left at once
TrainOpenFolder ==
    /\ pc = "train_folder"
    /\ folder_pos <= Len(student_folders)
    /\ total_students' = total_students + 1
    /\ person_embeddings' = <<>>
    /\ \E n \in 0..MaxPhotos :
          /\ n_image_files' = n
          /\ IF n = 0
             THEN /\ folder_pos' = folder_pos + 1
                  /\ pc' = "train_folder"
             ELSE /\ folder_pos' = folder_pos
                  /\ pc' = "train_photo"
    /\ photo_pos' = 1
    /\ UNCHANGED <<recVars, dataset, student_folders, aug_idx,
                   median_embedding, face_dict>>

\* one photo: it is read and the detector runs on the original
TrainPhotoOriginal ==
    /\ pc = "train_photo"
    /\ photo_pos <= n_image_files
    /\ \/ \* corrupted file, or an exception while processing the photo
          /\ photo_pos' = photo_pos + 1
          /\ UNCHANGED <<pc, aug_idx, person_embeddings>>
       \/ \* no face in the original
          /\ pc' = "train_augment"
          /\ aug_idx' = 0
          /\ UNCHANGED <<photo_pos, person_embeddings>>
       \/ \* the largest face of the original
          \E emb \in TrainEmbeddings :
             /\ person_embeddings' = Append(person_embeddings, emb)
             /\ pc' = "train_augment"
             /\ aug_idx' = 0
             /\ UNCHANGED photo_pos
    /\ UNCHANGED <<recVars, dataset, student_folders, folder_pos,
                   n_image_files, median_embedding, face_dict, total_students>>

\* one augmented version of the photo
TrainAugment ==
    /\ pc = "train_augment"
    /\ aug_idx < num_augmentations(n_image_files)
    /\ \/ \* the augmentation fails or shows no face
          UNCHANGED person_embeddings
       \/ \E emb_aug \in TrainEmbeddings :
             person_embeddings' = Append(person_embeddings, emb_aug)
    /\ aug_idx' = aug_idx + 1
    /\ IF aug_idx' = num_augmentations(n_image_files)
       THEN /\ photo_pos' = photo_pos + 1
            /\ pc' = "train_photo"
       ELSE UNCHANGED <<photo_pos, pc>>
    /\ UNCHANGED <<recVars, dataset, student_folders, folder_pos,
                   n_image_files, median_embedding, face_dict, total_students>>

\* the representative embedding of the student
TrainAggregate ==
    /\ pc = "train_photo"
    /\ photo_pos > n_image_files
    /\ IF person_embeddings # <<>>
       THEN /\ median_embedding' = ElementwiseMedian(person_embeddings)
            /\ face_dict' = DictSet(face_dict,
                                Lower(student_folders[folder_pos]),
                                Normalize(median_embedding'))
       ELSE UNCHANGED <<median_embedding, face_dict>>
    /\ folder_pos' = folder_pos + 1
    /\ pc' = "train_folder"
    /\ UNCHANGED <<recVars, dataset, student_folders, n_image_files,
                   photo_pos, aug_idx, person_embeddings, total_students>>

\* after the loop: no gallery is an error, else the gallery is saved
TrainFinish ==
    /\ pc = "train_folder"
    /\ folder_pos > Len(student_folders)
    /\ IF face_dict = <<>>
       THEN /\ TrainExit(1)
            /\ UNCHANGED embeddings_file
       ELSE /\ embeddings_file' = Present(face_dict)
            /\ TrainExit(0)
    /\ UNCHANGED <<ret, test_folder, known_faces, image_files,
                   idx, all_detections, total_faces, recognized_students,
                   confidence_scores, stdout, seen_faces, failed_images,
                   callVars,
                   psiVars,
                   trainVars>>

NextTrain ==
    \/ TrainStart
    \/ TrainOpenFolder
    \/ TrainPhotoOriginal
    \/ TrainAugment
    \/ TrainAggregate
    \/ TrainFinish

SpecTrain == InitTrain /\ [][NextTrain]_vars

\* ------------------------------------------------------------------------
\* Properties of process_single_image (checked under SpecImage)
\* ------------------------------------------------------------------------
\* the unique face a detection record was made for
FaceOf(det) == unique_faces[det.faceIndex + 1]

\* the similarity of a face to a gallery entry, as the matcher computes it
SimTo(face, entry) ==
    cosine_similarity(Normalize(face.normed_embedding), entry.emb)

\* C1: process_single_image never emits two detection records of the same
\* image with the same non-null studentId.
C1_IdentityAtMostOncePerImage ==
    \A i, j \in 1..Len(detections) :
        (i # j /\ detections[i].studentId # None)
            => detections[i].studentId # detections[j].studentId

\* C1 witness: an identity was assigned to a face, and a later face that is
\* also above the threshold for that identity got a record without it.
C1_Witness ==
    /\ pc = "psi_return"
    /\ \E i, j \in 1..Len(detections) :
          /\ i < j
          /\ detections[i].studentId # None
          /\ \E k \in 1..Len(known_faces) :
                /\ known_faces[k].name = detections[i].studentId
                /\ Greater(SimTo(FaceOf(detections[j]), known_faces[k]),
                           confidence_threshold)
          /\ detections[j].studentId # detections[i].studentId

\* C2: every two distinct faces kept in unique_faces have an overlap ratio
\* (intersection area over the smaller box area) of at most 0.7.
C2_UniqueFacesOverlapAtMost07 ==
    \A i, j \in 1..Len(unique_faces) :
        i # j =>
            LET a == unique_faces[i].bbox
                b == unique_faces[j].bbox
            IN 10 * intersection_area(a, b) <= 7 * Min(Area(a), Area(b))

\* C2 witness: suppression is over, a pooled detection was dropped, and two
\* kept faces overlap with a ratio of exactly 0.7.
C2_Witness ==
    /\ pc = "psi_match"
    /\ Len(unique_faces) < Len(all_faces)
    /\ \E i, j \in 1..Len(unique_faces) :
          /\ i # j
          /\ 10 * intersection_area(unique_faces[i].bbox, unique_faces[j].bbox)
                 = 7 * Min(Area(unique_faces[i].bbox),
                           Area(unique_faces[j].bbox))

BestSimilarity(face, entries) ==
    LET vals == {SimTo(face, entries[k]).val : k \in
                    {j \in 1..Len(entries) : ~SimTo(face, entries[j]).nan}}
    IN CHOOSE m \in vals : \A x \in vals : x <= m

\* C4: the confidence of an unmatched record is the best cosine similarity
\* between its face and the gallery entries, and 0 for an empty gallery.
C4_UnmatchedConfidenceIsBestSimilarity ==
    \A i \in 1..Len(detections) :
        detections[i].studentId = None =>
            detections[i].confidence =
                IF known_faces = <<>> THEN 0
                ELSE BestSimilarity(FaceOf(detections[i]), known_faces)

\* the identities given to the records before record i
UsedBefore(i) ==
    {detections[j].studentId : j \in
        {k \in 1..(i - 1) : detections[k].studentId # None}}

C5_GreedyBestUnusedAboveThreshold ==
    \A i \in 1..Len(detections) :
        LET face == FaceOf(detections[i])
            unused == SelectSeq(known_faces,
                          LAMBDA e : e.name \notin UsedBefore(i))
        IN IF unused = <<>>
           THEN detections[i].studentId = None
           ELSE LET m == BestSimilarity(face, unused)
                IN IF m > confidence_threshold
                   THEN \E k \in 1..Len(unused) :
                           /\ unused[k].name = detections[i].studentId
                           /\ SimTo(face, unused[k]).val = m
                   ELSE detections[i].studentId = None

\* the unique faces the matching loop has gone through
FacesDone ==
    IF pc = "psi_match" THEN face_pos - 1
    ELSE IF pc = "psi_return" THEN Len(unique_faces)
    ELSE 0

\* C6: exactly one record for every unique face of non-zero norm, none for
\* a face of zero norm, and the faces after a zero-norm face keep theirs.
C6_OneRecordPerNonZeroFace ==
    LET nonzero == {k \in 1..FacesDone :
                       NormSq(unique_faces[k].normed_embedding.num) > 0}
    IN /\ Len(detections) = Cardinality(nonzero)
       /\ \A k \in nonzero :
             \E i \in 1..Len(detections) : detections[i].faceIndex = k - 1
       /\ \A i, j \in 1..Len(detections) :
             i < j => detections[i].faceIndex < detections[j].faceIndex

\* C6 witness: a zero-norm face was skipped and a later face has its record.
C6_Witness ==
    /\ pc = "psi_return"
    /\ \E k \in 1..Len(unique_faces) :
          /\ NormSq(unique_faces[k].normed_embedding.num) = 0
          /\ \E i \in 1..Len(detections) : detections[i].faceIndex > k - 1

\* ------------------------------------------------------------------------
\* Properties of the recognition run (checked under Spec)
\* ------------------------------------------------------------------------
\* the records of image i in the result, without their imageIndex
RecordsOf(i) ==
    LET recs == SelectSeq(all_detections, LAMBDA r : r.imageIndex = i)
    IN [k \in 1..Len(recs) |->
           [faceIndex |-> recs[k].faceIndex, bbox |-> recs[k].bbox,
            confidence |-> recs[k].confidence,
            studentId |-> recs[k].studentId]]

\* C7: the set of recognized identities is empty when the matching of an
\* image starts, and two images with the same pooled detections get the same
\* records whatever was processed before them.
C7_SameImageSameRecords ==
    /\ (pc = "psi_match" /\ face_pos = 1) => recognized_in_image = {}
    /\ \A i, j \in 1..Len(seen_faces) :
          seen_faces[i] = seen_faces[j] => RecordsOf(i - 1) = RecordsOf(j - 1)

\* C7 witness: the run is over, two images had the same non-empty pooled
\* detections and the same identity was matched in both.
C7_Witness ==
    /\ pc = "done"
    /\ \E i, j \in 1..Len(seen_faces) :
          /\ i < j
          /\ seen_faces[i] = seen_faces[j]
          /\ seen_faces[i] # <<>>
          /\ \E k \in 1..Len(RecordsOf(i - 1)) :
                /\ RecordsOf(i - 1)[k].studentId # None
                /\ RecordsOf(j - 1)[k].studentId = RecordsOf(i - 1)[k].studentId

\* the run has no gallery file, an empty gallery, no test folder or no
\* image file in it
NoGalleryOrNoImages ==
    \/ ~embeddings_file.exists
    \/ embeddings_file.content = <<>>
    \/ ~test_folder.exists
    \/ \A f \in test_folder.content : Lower(f.ext) \notin ImageExts

IsErrorObject(r) ==
    /\ DOMAIN r = {"error", "totalFaces", "recognizedStudents",
                   "averageConfidence", "detections"}
    /\ r.totalFaces = 0
    /\ r.recognizedStudents = {}
    /\ r.averageConfidence = 0
    /\ r.detections = <<>>

\* C10: such a run processes no image and prints no success result, and when
\* it has ended it has printed one error object and exited with status 1.
C10_FatalErrorsPrintErrorAndExit ==
    NoGalleryOrNoImages =>
        /\ pc \in {"main_start", "main_load", "main_init_app",
                   "main_check_folder", "main_list", "exited"}
        /\ seen_faces = <<>> /\ all_detections = <<>> /\ idx = 0
        /\ \A k \in 1..Len(stdout) : IsErrorObject(stdout[k])
        /\ exit_status # <<0>>
        /\ pc = "exited" => (Len(stdout) = 1 /\ exit_status = <<1>>)

\* C10 witness: the gallery is there and the folder holds only a file that is
\* no image; the run has ended with the error object and status 1.
C10_Witness ==
    /\ pc = "exited"
    /\ embeddings_file.exists /\ embeddings_file.content # <<>>
    /\ test_folder.exists /\ test_folder.content # {}
    /\ NoGalleryOrNoImages
    /\ stdout = <<ErrorResult("No images found in test folder")>>
    /\ exit_status = <<1>>

\* ------------------------------------------------------------------------
\* Properties of the enrollment run (checked under SpecTrain)
\* ------------------------------------------------------------------------
\* the loop has just left a student folder
FolderJustLeft == pc = "train_folder" /\ folder_pos > 1

LastKey == Lower(student_folders[folder_pos - 1])

\* C8: a folder with a collected embedding has a unit-norm vector in the
\* gallery, a folder without one is absent, and no gallery vector is
\* degenerate.
C8_GalleryVectorsUnitNorm ==
    /\ \A k \in 1..Len(face_dict) : IsUnitNorm(face_dict[k].emb)
    /\ FolderJustLeft =>
          IF person_embeddings # <<>>
          THEN HasKey(face_dict, LastKey)
                   /\ IsUnitNorm(DictGet(face_dict, LastKey))
          ELSE ~HasKey(face_dict, LastKey)

\* component c of the collected embeddings
Component(c) ==
    [k \in 1..Len(person_embeddings) |-> person_embeddings[k].num[c]]

\* the k-th smallest value of a list, by counting
KthSmallest(q, k) ==
    CHOOSE x \in {q[i] : i \in 1..Len(q)} :
        /\ Cardinality({i \in 1..Len(q) : q[i] < x}) < k
        /\ Cardinality({i \in 1..Len(q) : q[i] <= x}) >= k

\* twice the median of a list: the middle value, or the two middle values
MedianByRank2(q) ==
    LET n == Len(q)
    IN IF n % 2 = 1 THEN 2 * KthSmallest(q, (n + 1) \div 2)
       ELSE KthSmallest(q, n \div 2) + KthSmallest(q, n \div 2 + 1)

Swap(q, i, j) ==
    [k \in 1..Len(q) |-> IF k = i THEN q[j] ELSE IF k = j THEN q[i] ELSE q[k]]

\* C9: before normalization the representative is the element-wise median
\* of 3 or more collected embeddings and the element-wise mean of 1 or 2,
\* and it is the same for every order of the collected embeddings (every
\* order is reached by exchanging neighbours, and every list is reachable).
C9_MedianOrMeanOrderFree ==
    (FolderJustLeft /\ person_embeddings # <<>>) =>
        LET n == Len(person_embeddings)
        IN /\ median_embedding.den2 = 4 * person_embeddings[1].den2
           /\ \A c \in 1..2 :
                 IF n >= 3
                 THEN median_embedding.num[c] = MedianByRank2(Component(c))
                 ELSE n * median_embedding.num[c] = 2 * SumSeq(Component(c))
           /\ \A i \in 1..(n - 1) :
                 ElementwiseMedian(Swap(person_embeddings, i, i + 1))
                     = median_embedding

\* C9 witness: three embeddings were collected in an order that is not
\* sorted, the middle one by position not being the median.
C9_Witness ==
    /\ FolderJustLeft
    /\ Len(person_embeddings) = 3
    /\ median_embedding.num[1] # 2 * person_embeddings[2].num[1]
    /\ HasKey(face_dict, LastKey)

\* ------------------------------------------------------------------------
\* C11
\* ------------------------------------------------------------------------
\* the faces left of a pooled list by duplicate suppression
RECURSIVE Deduped(_, _)
Deduped(pooled, kept) ==
    IF pooled = <<>> THEN kept
    ELSE Deduped(Tail(pooled),
                 IF is_duplicate(Head(pooled), kept) THEN kept
                 ELSE Append(kept, Head(pooled)))

\* the records of the faces from position k on, one face failing or having
\* a zero embedding leaving the others their records
RECURSIVE Matched(_, _, _, _, _, _)
Matched(faces, k, index, threshold, used, dets) ==
    IF k > Len(faces) THEN dets
    ELSE LET face == faces[k]
         IN IF HasEmbedding(face.normed_embedding)
               /\ NormPositive(face.normed_embedding)
            THEN LET best == FindBestMatch(Normalize(face.normed_embedding),
                                 known_faces, 1, threshold, used, NoMatch)
                 IN Matched(faces, k + 1, index, threshold,
                        IF Truthy(best.best_match)
                        THEN used \cup {best.best_match} ELSE used,
                        Append(dets, Detection(index, k - 1, face, best)))
            ELSE Matched(faces, k + 1, index, threshold, used, dets)

\* the records an image with these pooled detections is due
RecordsDue(pooled, index, threshold) ==
    Matched(Deduped(pooled, <<>>), 1, index, threshold, {}, <<>>)

\* the records due to the first n images of the sorted listing, in order
RECURSIVE BatchRecordsDue(_)
BatchRecordsDue(n) ==
    IF n = 0 THEN <<>>
    ELSE BatchRecordsDue(n - 1)
             \o RecordsDue(seen_faces[n], n - 1, DefaultThreshold)

\* C11: a failure local to one image or one face never ends the run: the
\* run exits with an error only before the first image; a call that
\* failed returns the records it had gathered, none for an invalid image;
\* between two calls the images collected so far carry all the records due
\* to them, in the order of the sorted listing; and the printed result
\* holds the records of every listed image.
C11_LocalFailureNeverAbortsBatch ==
    /\ pc = "exited" => image_files = <<>>
    /\ pc = "psi_return" /\ method = 1 => detections = <<>>
    /\ pc = "psi_return" /\ method > 1 =>
           detections = RecordsDue(all_faces, image_index, DefaultThreshold)
    /\ pc \in {"main_loop", "done"} =>
           all_detections = BatchRecordsDue(Len(seen_faces))
    /\ failed_images \subseteq 0..(Len(seen_faces) - 1)
    /\ pc = "done" =>
           /\ Len(seen_faces) = Len(image_files)
           /\ exit_status = <<0>>
           /\ stdout[Len(stdout)].detections = BatchRecordsDue(Len(image_files))
           /\ stdout[Len(stdout)].processedImages = Len(image_files)

\* a run that is over, whose first image failed (invalid, or an exception
\* before detection) and whose second image had a face without embedding
\* ahead of a recognized one, whose record is in the printed result
C11_Witness ==
    /\ pc = "done"
    /\ Len(image_files) = 2
    /\ failed_images = {0}
    /\ \E k \in 1..Len(seen_faces[2]) :
          ~HasEmbedding(seen_faces[2][k].normed_embedding)
    /\ \E k \in 1..Len(stdout[Len(stdout)].detections) :
          /\ stdout[Len(stdout)].detections[k].imageIndex = 1
          /\ stdout[Len(stdout)].detections[k].faceIndex = 2
          /\ stdout[Len(stdout)].detections[k].studentId # None

\* ------------------------------------------------------------------------
\* C12
\* ------------------------------------------------------------------------
\* the positions of the entries whose similarity to the face is m
TiedAt(face, entries, m) ==
    {k \in 1..Len(entries) :
        ~SimTo(face, entries[k]).nan /\ SimTo(face, entries[k]).val = m}

\* C12: when two or more unused identities share the maximal similarity to
\* a face and it is above the threshold, the face gets the first of them in
\* gallery order; and the identity a face gets has a similarity strictly
\* greater than that of every unused identity before it in gallery order.
C12_TieFirstEncounteredWins ==
    \A i \in 1..Len(detections) :
        LET face == FaceOf(detections[i])
            unused == SelectSeq(known_faces,
                          LAMBDA e : e.name \notin UsedBefore(i))
        IN unused # <<>> =>
              LET m == BestSimilarity(face, unused)
                  tied == TiedAt(face, unused, m)
                  first == CHOOSE k \in tied : \A j \in tied : k <= j
              IN /\ (m > confidence_threshold /\ Cardinality(tied) >= 2)
                        => detections[i].studentId = unused[first].name
                 /\ \A p \in 1..Len(unused) :
                        unused[p].name = detections[i].studentId =>
                            \A q \in 1..(p - 1) :
                                SimTo(face, unused[q]).val
                                    < SimTo(face, unused[p]).val

\* ------------------------------------------------------------------------
\* C13
\* ------------------------------------------------------------------------
\* the pooled detections that duplicate suppression has gone through
PooledDone ==
    IF pc = "psi_dedupe" THEN SubSeq(all_faces, 1, face_pos - 1)
    ELSE IF pc \in {"psi_match", "psi_return"} THEN all_faces
    ELSE <<>>

\* the rank of k among the positions K
Rank(K, k) == Cardinality({j \in K : j <= k})

\* unique_faces is the pooled list cut down to the positions K, in order,
\* and a position is outside K exactly when its detection overlaps by more
\* than 0.7 a detection at an earlier position of K
KeptAre(pooled, K) ==
    /\ Cardinality(K) = Len(unique_faces)
    /\ \A k \in K : unique_faces[Rank(K, k)] = pooled[k]
    /\ \A p \in 1..Len(pooled) :
          p \notin K <=>
              \E q \in K : q < p /\ OverlapExceeds(pooled[p].bbox,
                                                    pooled[q].bbox)

C13_FirstSeenWins ==
    /\ \E K \in SUBSET (1..Len(PooledDone)) : KeptAre(PooledDone, K)
    /\ PooledDone # <<>> =>
           unique_faces # <<>> /\ unique_faces[1] = PooledDone[1]

\* the detections of a variant come after those of the variants before it
PooledInDiscoveryOrder ==
    /\ Len(all_faces') >= Len(all_faces)
    /\ SubSeq(all_faces', 1, Len(all_faces)) = all_faces
    /\ method' >= method

\* C13: duplicate suppression keeps the discovery order and first-seen
\* wins: the pooled list only grows at its end, variant after variant;
\* unique_faces is a subsequence of it that starts with the first pooled
\* detection; and a pooled detection is dropped if and only if it overlaps
\* an earlier kept detection by more than 0.7.
C13_FirstSeenWinsInDiscoveryOrder ==
    []C13_FirstSeenWins /\ [][PooledInDiscoveryOrder]_vars

\* suppression is over; the two detections of one variant are pooled in
\* detector order and the second was dropped; and a detection was kept
\* although it overlaps by more than 0.7 an earlier pooled detection,
\* itself dropped
C13_Witness ==
    /\ pc = "psi_match"
    /\ \E K \in SUBSET (1..Len(all_faces)) :
          /\ KeptAre(all_faces, K)
          /\ \E p \in 1..(Len(all_faces) - 1) :
                /\ p + 1 \notin K
                /\ all_faces[p] = Face(Box3, VecA)
                /\ all_faces[p + 1] = Face(Box1, VecC)
          /\ \E p \in (1..Len(all_faces)) \ K :
                \E q \in K :
                    /\ p < q
                    /\ OverlapExceeds(all_faces[q].bbox, all_faces[p].bbox)

\* ------------------------------------------------------------------------
\* C14
\* ------------------------------------------------------------------------
\* the detections of the variants on which app.get did not raise, in order
RECURSIVE PooledOf(_)
PooledOf(outs) ==
    IF outs = <<>> THEN <<>>
    ELSE (IF Head(outs).raised THEN <<>> ELSE Head(outs).faces)
             \o PooledOf(Tail(outs))

\* C14: a raise of the detector on one variant skips that variant only:
\* every variant is tried, the detections of the variants that did not
\* raise are all pooled, and the call returns the records due to them
\* after duplicate suppression and matching.
C14_DetectorRaiseSkipsOneVariant ==
    /\ pc \in {"psi_detect", "psi_dedupe", "psi_match"} =>
           /\ Len(method_outputs) = method - 1
           /\ all_faces = PooledOf(method_outputs)
    /\ pc \in {"psi_dedupe", "psi_match"} =>
           Len(method_outputs) = Len(processing_methods)
    /\ pc = "psi_return" /\ method > 1 =>
           /\ Len(method_outputs) = Len(processing_methods)
           /\ detections = RecordsDue(PooledOf(method_outputs), image_index,
                                      confidence_threshold)

\* the call is over; the detector raised on one variant only, not the
\* last, and a face found on a later variant has its record with an
\* identity
C14_Witness ==
    /\ pc = "psi_return"
    /\ Len(method_outputs) = Len(processing_methods)
    /\ \E m \in 1..(Len(method_outputs) - 1) :
          /\ method_outputs[m].raised
          /\ \A n \in 1..Len(method_outputs) :
                n # m => method_outputs[n].faces # <<>>
          /\ \E i \in 1..Len(detections) :
                /\ detections[i].studentId # None
                /\ \E n \in (m + 1)..Len(method_outputs) :
                      \E k \in 1..Len(method_outputs[n].faces) :
                          method_outputs[n].faces[k] = FaceOf(detections[i])
                /\ \A n \in 1..(m - 1) :
                      \A k \in 1..Len(method_outputs[n].faces) :
                          method_outputs[n].faces[k] # FaceOf(detections[i])

\* ------------------------------------------------------------------------
\* C15
\* ------------------------------------------------------------------------
\* every key of the gallery is lower-case
LowerCaseKeys ==
    \A k \in 1..Len(known_faces) :
        Lower(known_faces[k].name) = known_faces[k].name

\* C15: with lower-case gallery keys, the annotated image of a call shows
\* one label for every detection record, for the same face; the label is
\* "Unknown" exactly when the record's studentId is null, and otherwise
\* the record's identity (title-cased); and no identity is drawn twice.
C15_AnnotatorAgreesWithRecords ==
    (pc = "psi_return" /\ method > 1 /\ LowerCaseKeys) =>
        LET labels == annotated_image.labels
        IN /\ annotated_image.saved
           /\ Len(labels) = Len(detections)
           /\ \A i \in 1..Len(detections) :
                 /\ labels[i].faceIndex = detections[i].faceIndex
                 /\ labels[i].label = "Unknown"
                        <=> detections[i].studentId = None
                 /\ detections[i].studentId # None
                        => labels[i].label = Title(detections[i].studentId)
           /\ \A i, j \in 1..Len(labels) :
                 (i # j /\ labels[i].label # "Unknown")
                     => labels[i].label # labels[j].label

====
